---- MODULE Spec2Model ----
(***************************************************************************)
(* Gmail push relay: the history reconciliation pass of GmailHandler       *)
(* (src/src/gmail_handler.py) as it is driven by the /email-notify webhook *)
(* and its background tasks (src/main.py).                                 *)
(*                                                                         *)
(* Strings that the program converts (history cursors) are sequences of    *)
(* one-character strings, so that str() and int() are computed.            *)
(***************************************************************************)
EXTENDS Integers, Sequences, FiniteSets, TLC

\* ------------------------------------------------------------------ bounds
\* The mailbox's history id when the service starts, and the last id it reaches.
FirstHistoryId == 8
MaxHistoryId == 11
\* Push notifications accepted by /email-notify in one behaviour.
MaxNotifications == 2
\* Failures of the environment (a remote call, the consumer, the state file)
\* in one behaviour.
MaxFaults == 1

\* The request threads of the web server that run background tasks.
Threads == {"t1", "t2"}

\* ------------------------------------------------------------ Python values
None == <<"None">>

Digits == <<"0", "1", "2", "3", "4", "5", "6", "7", "8", "9">>

DigitChars == {Digits[i] : i \in 1..10}

DigitValue(c) == CHOOSE d \in 0..9 : Digits[d + 1] = c

\* str(n) of a non-negative int.
RECURSIVE str(_)
str(n) ==
    IF n < 10 THEN <<Digits[n + 1]>>
    ELSE Append(str(n \div 10), Digits[(n % 10) + 1])

\* int(s) raises ValueError unless s is a non-empty run of decimal digits
\* (None raises TypeError); both are caught by the same handler.
ValueError(s) == s = None \/ Len(s) = 0 \/ \E i \in 1..Len(s) : s[i] \notin DigitChars

RECURSIVE int(_)
int(s) ==
    IF Len(s) = 1 THEN DigitValue(s[1])
    ELSE 10 * int(SubSeq(s, 1, Len(s) - 1)) + DigitValue(s[Len(s)])

\* Truth value of an Optional[str]: None and "" are falsy.
Truthy(s) == s # None /\ s # <<>>

\* ------------------------------------------------------------- the mailbox
\* The remote mailbox's history: record n is the change with history id n.
\* A record with an odd id adds two messages and one with an even id adds
\* one; the record with the last id carries an entry with no message id.
NoId == 0

MessagesAdded(n) ==
    IF n = MaxHistoryId THEN <<[message |-> NoId]>>
    ELSE IF n % 2 = 1 THEN <<[message |-> 2 * n], [message |-> 2 * n + 1]>>
    ELSE <<[message |-> 2 * n]>>

\* labelIds of message m as messages.get returns them (<<>>: no labelIds key).
LabelIdsOf(m) ==
    CASE m % 3 = 0 -> <<"INBOX", "UNREAD">>
      [] m % 3 = 1 -> <<"INBOX", "IMPORTANT">>
      [] OTHER -> <<>>

\* history.list(startHistoryId = n) while the mailbox is at history id head:
\* the records after n, flattened to their messagesAdded entries in order.
RECURSIVE HistoryEvents(_, _)
HistoryEvents(n, head) ==
    IF n >= head THEN <<>>
    ELSE MessagesAdded(n + 1) \o HistoryEvents(n + 1, head)

\* The cursors a push notification can carry: history ids of the mailbox,
\* and a value that is no number.
IncomingCursors == {str(n) : n \in FirstHistoryId..MaxHistoryId} \cup {<<"x">>}


\* -------------------------------------------------- label configuration
\* s.split(','): the fields of s between the separators.
RECURSIVE split(_, _)
split(s, sep) ==
    IF \A i \in 1..Len(s) : s[i] # sep THEN <<s>>
    ELSE LET i == CHOOSE k \in 1..Len(s) :
                      s[k] = sep /\ \A j \in 1..(k - 1) : s[j] # sep
         IN  <<SubSeq(s, 1, i - 1)>> \o split(SubSeq(s, i + 1, Len(s)), sep)

\* The whitespace of the texts modelled here.
Whitespace == {" ", "\n"}

\* s.strip(): s without its leading and trailing whitespace.
RECURSIVE strip(_)
strip(s) ==
    IF Len(s) = 0 THEN s
    ELSE IF s[1] \in Whitespace THEN strip(Tail(s))
    ELSE IF s[Len(s)] \in Whitespace THEN strip(SubSeq(s, 1, Len(s) - 1))
    ELSE s

\* Config.get_gmail_watch_label_ids over the value of GMAIL_WATCH_LABEL_IDS:
\* the stripped, non-empty comma-separated fields. A value is a sequence of
\* tokens: "," and " " are themselves, any other token is a run of label
\* characters.
get_gmail_watch_label_ids(env) ==
    IF env = <<>> THEN <<>>
    ELSE LET fields == split(env, ",")
             stripped == [i \in 1..Len(fields) |-> strip(fields[i])]
         IN  SelectSeq(stripped, LAMBDA f : f # <<>>)

\* The values GMAIL_WATCH_LABEL_IDS takes: unset, one padded label with a
\* trailing comma, only blanks and a comma.
LabelIdEnvs ==
    { <<>>,
      <<" ", "IMPORTANT", ",">>,
      <<" ", ",">> }

\* `label in labelIds` for a configured label (a field) and a message's labels.
LabelIn(label, labelIds) == \E j \in 1..Len(labelIds) : label = <<labelIds[j]>>

\* Mutant: the filter without its test that labels are configured.
SkippedWithoutEmptyCheck(requestedLabels, labelIds) ==
    ~ \E i \in 1..Len(requestedLabels) : LabelIn(requestedLabels[i], labelIds)

\* The label filter of process_message: TRUE when the message is skipped.
SkippedByLabelFilter(requestedLabels, labelIds) ==
    /\ requestedLabels # <<>>
    /\ ~ \E i \in 1..Len(requestedLabels) : LabelIn(requestedLabels[i], labelIds)

\* ------------------------------------------------------- the state file
\* gmail_state.json: absent, or present with text that json.load rejects
\* (empty after a truncation, or garbled), or present with a JSON object
\* holding last_history_id. size is the length of the variable part of the
\* text, the cursor.
Absent == [kind |-> "absent", last_history_id |-> None, size |-> 0]

Truncated == [kind |-> "corrupt", last_history_id |-> None, size |-> 0]

Json(cursor) == [kind |-> "json", last_history_id |-> cursor, size |-> Len(cursor)]

\* json.dump(state, f) and the close of a handle opened with 'w': the text is
\* written at offset 0 of the file as it is now. Text left behind by another
\* handle that is longer than the new text keeps its tail, which json.load
\* rejects.
WriteAt0(cursor, file) ==
    IF Len(cursor) >= file.size THEN Json(cursor)
    ELSE [kind |-> "corrupt", last_history_id |-> None, size |-> file.size]

\* ------------------------------------------------------- pure functions
\* get_last_processed_history_id: the stored cursor, or None when the file
\* is absent, has no readable JSON, or the read raises.
get_last_processed_history_id(file, io_error) ==
    IF file.kind = "json" /\ ~io_error THEN file.last_history_id ELSE None

\* a <= b as Python compares strings.
RECURSIVE LexLeq(_, _)
LexLeq(a, b) ==
    IF a = <<>> THEN TRUE
    ELSE IF b = <<>> THEN FALSE
    ELSE IF a[1] = b[1] THEN LexLeq(Tail(a), Tail(b))
    ELSE DigitValue(a[1]) < DigitValue(b[1])

\* Mutant: the cursors compared as strings.
NotNewerLexical(incoming, last) ==
    /\ ~ValueError(incoming)
    /\ IF Truthy(last)
       THEN ~ValueError(last) /\ LexLeq(incoming, last)
       ELSE int(incoming) <= 0

\* Mutant: an equal cursor counts as newer.
NotNewerStrict(incoming, last) ==
    /\ ~ValueError(incoming)
    /\ IF Truthy(last)
       THEN ~ValueError(last) /\ int(incoming) < int(last)
       ELSE int(incoming) < 0

\* Mutant: a cursor that does not convert is skipped.
NotNewerOrMalformed(incoming, last) ==
    \/ ValueError(incoming)
    \/ IF Truthy(last)
       THEN ValueError(last) \/ int(incoming) <= int(last)
       ELSE int(incoming) <= 0

\* The freshness check (lines 150-156): TRUE when both cursors convert and
\* the incoming one is not newer than the last processed one (0 when there
\* is none).
NotNewer(incoming, last) ==
    /\ ~ValueError(incoming)
    /\ IF Truthy(last)
       THEN ~ValueError(last) /\ int(incoming) <= int(last)
       ELSE int(incoming) <= 0

\* Line 162: the start of the range.
\* Mutant: the range starts at the incoming cursor.
StartFromIncoming(incoming, last) == incoming

StartHistoryId(incoming, last) == IF Truthy(last) THEN last ELSE incoming

\* Mutant: the list request names no history type.
HistoryListAllTypes(start) ==
    [userId |-> "me", startHistoryId |-> start, historyTypes |-> <<>>]

\* Lines 170-174: the history.list request.
HistoryListRequest(start) ==
    [userId |-> "me", startHistoryId |-> start,
     historyTypes |-> <<"messageAdded">>]

\* Mutant: the start of the range is saved.
SavedCursorStart(p) == p.start_history_id

\* Lines 182 and 201: the cursor a pass saves is the incoming one.
SavedCursor(p) == p.history_id

\* fetch_message: the message, or None when messages.get raises or answers
\* with a message that has no id.
NoMessage == [id |-> NoId, labelIds |-> <<>>]

fetch_message(message_id, fetch) ==
    IF fetch = "ok"
    THEN [id |-> message_id, labelIds |-> LabelIdsOf(message_id)]
    ELSE NoMessage

\* process_email: what the consumer does with the message (the sink accepts
\* it, the sink reports a failure, an exception is raised inside) is logged
\* there; the call returns in each case.
process_email(consumer) ==
    IF consumer = "ok" THEN "forwarded" ELSE "forwarded_failed"

\* process_message: the label filter, then process_email.
process_message(message, consumer, env) ==
    IF SkippedByLabelFilter(get_gmail_watch_label_ids(env), message.labelIds)
    THEN "filtered"
    ELSE process_email(consumer)

\* The results that mean process_email was called with the message.
Forwarded == {"forwarded", "forwarded_failed"}

\* One entry of the fan-out loop (lines 186-196): what happens to it.
\* Mutant: every fetched message goes to the consumer.
FanOutEntryUnfiltered(entry, fetch, consumer, env) ==
    IF entry.message = NoId THEN "KeyError"
    ELSE IF fetch_message(entry.message, fetch) = NoMessage THEN "not_fetched"
    ELSE process_email(consumer)

FanOutEntry(entry, fetch, consumer, env) ==
    IF entry.message = NoId THEN "KeyError"
    ELSE LET message == fetch_message(entry.message, fetch) IN
         IF message = NoMessage THEN "not_fetched"
         ELSE process_message(message, consumer, env)

\* ---------------------------------------------------------- message parts
\* A part of a message payload: the keys the decoders read. A text is a
\* sequence of tokens: a character, a blank, a newline, an HTML tag, a whole
\* script element, a comment. body.data is the text as base64 units: a unit
\* decodes to its token, "0xff" is a byte that is no UTF-8, and BadPadding
\* is a truncated last unit.
Part(mimeType, filename, data, attachmentId, size, parts) ==
    [mimeType |-> mimeType, filename |-> filename,
     body |-> [data |-> data, attachmentId |-> attachmentId, size |-> size],
     parts |-> parts]

BadPadding == "bad_padding"

Tags == {"<p>", "</p>", "<script>", "<!-->"}

\* message.get('payload', {}) of a message without payload: no key at all.
NoPayload == Part("", "", <<>>, "", 0, <<>>)

\* base64.urlsafe_b64decode(data) raises on a truncated unit.
DecodeRaises(data) == \E i \in 1..Len(data) : data[i] = BadPadding

\* .decode('utf-8', errors='ignore'): bytes that are no UTF-8 are dropped.
b64decode(data) == SelectSeq(data, LAMBDA u : u # "0xff")

\* line.split("  "): the fields of s between pairs of blanks.
RECURSIVE split2(_)
split2(s) ==
    IF \A i \in 1..(Len(s) - 1) : ~(s[i] = " " /\ s[i + 1] = " ") THEN <<s>>
    ELSE LET i == CHOOSE k \in 1..(Len(s) - 1) :
                      /\ s[k] = " " /\ s[k + 1] = " "
                      /\ \A j \in 1..(k - 1) : ~(s[j] = " " /\ s[j + 1] = " ")
         IN  <<SubSeq(s, 1, i - 1)>> \o split2(SubSeq(s, i + 2, Len(s)))

\* The sequences of a sequence of sequences, one after another.
RECURSIVE Flatten(_)
Flatten(ss) == IF ss = <<>> THEN <<>> ELSE Head(ss) \o Flatten(Tail(ss))

\* ' '.join(chunks).
RECURSIVE join(_)
join(chunks) ==
    IF chunks = <<>> THEN <<>>
    ELSE IF Len(chunks) = 1 THEN chunks[1]
    ELSE chunks[1] \o <<" ">> \o join(Tail(chunks))

\* _extract_clean_text_from_html, lines 35-54: script elements, comments and
\* tags go; each line is stripped and split at double blanks, each phrase
\* stripped, and the phrases that are left are joined by one blank.
extract_clean_text_from_html(html_content) ==
    LET text == SelectSeq(html_content, LAMBDA u : u \notin Tags)
        raw == split(text, "\n")
        lines == [i \in 1..Len(raw) |-> strip(raw[i])]
        phrases == Flatten([i \in 1..Len(lines) |-> split2(lines[i])])
        chunks == [i \in 1..Len(phrases) |-> strip(phrases[i])]
    IN  join(SelectSeq(chunks, LAMBDA c : c # <<>>))

\* Lines 100-122: what a part itself adds to the text: its decoded data when
\* its type is the one asked for and it has data that decodes, cleaned when
\* it is HTML and strip_html is set.
OwnText(part, html_part, strip_html) ==
    IF part.mimeType = "text/plain" /\ ~html_part
    THEN IF part.body.data # <<>> /\ ~DecodeRaises(part.body.data)
         THEN b64decode(part.body.data) ELSE <<>>
    ELSE IF part.mimeType = "text/html" /\ html_part
    THEN IF part.body.data # <<>> /\ ~DecodeRaises(part.body.data)
         THEN IF strip_html
              THEN extract_clean_text_from_html(b64decode(part.body.data))
              ELSE b64decode(part.body.data)
         ELSE <<>>
    ELSE <<>>

\* Mutant: the subparts come before the part's own text.
RECURSIVE ChildrenFirst(_, _, _)
RECURSIVE ChildrenFirstOfParts(_, _, _)
ChildrenFirst(part, html_part, strip_html) ==
    ChildrenFirstOfParts(part.parts, html_part, strip_html)
    \o OwnText(part, html_part, strip_html)

ChildrenFirstOfParts(parts, html_part, strip_html) ==
    IF parts = <<>> THEN <<>>
    ELSE ChildrenFirst(Head(parts), html_part, strip_html)
         \o ChildrenFirstOfParts(Tail(parts), html_part, strip_html)

ExtractChildrenFirst(message, html_part, strip_html) ==
    strip(ChildrenFirst(message.payload, html_part, strip_html))

\* extract_text_from_part, lines 97-129: the part's own text, then the text
\* of each subpart in the order of the list.
RECURSIVE extract_text_from_part(_, _, _)
RECURSIVE TextOfParts(_, _, _)
extract_text_from_part(part, html_part, strip_html) ==
    OwnText(part, html_part, strip_html)
    \o TextOfParts(part.parts, html_part, strip_html)

\* Lines 125-127: the loop over part['parts'].
TextOfParts(parts, html_part, strip_html) ==
    IF parts = <<>> THEN <<>>
    ELSE extract_text_from_part(Head(parts), html_part, strip_html)
         \o TextOfParts(Tail(parts), html_part, strip_html)

\* extract_message_body, lines 131-133: the text of the payload, stripped.
extract_message_body(message, html_part, strip_html) ==
    strip(extract_text_from_part(message.payload, html_part, strip_html))

\* Mutant: the plain text is preferred.
BodyTextPlainFirst(message) ==
    IF extract_message_body(message, FALSE, FALSE) # <<>>
    THEN extract_message_body(message, FALSE, FALSE)
    ELSE extract_message_body(message, TRUE, TRUE)

\* process_email, lines 62-65: the body is the cleaned HTML text, or the
\* plain text when that is empty.
BodyText(message) ==
    IF extract_message_body(message, TRUE, TRUE) # <<>>
    THEN extract_message_body(message, TRUE, TRUE)
    ELSE extract_message_body(message, FALSE, FALSE)

\* Lines 153-162: the entry of a part that has a filename and an attachment id.
OwnAttachments(part) ==
    IF part.filename # "" /\ part.body.attachmentId # ""
    THEN <<[filename |-> part.filename, mimeType |-> part.mimeType,
            attachmentId |-> part.body.attachmentId, size |-> part.body.size]>>
    ELSE <<>>

\* find_attachments_in_part, lines 151-167: the part's entry, then those of
\* each subpart in the order of the list.
RECURSIVE find_attachments_in_part(_)
RECURSIVE AttachmentsOfParts(_)
find_attachments_in_part(part) ==
    OwnAttachments(part) \o AttachmentsOfParts(part.parts)

\* Lines 165-167: the loop over part['parts'].
AttachmentsOfParts(parts) ==
    IF parts = <<>> THEN <<>>
    ELSE find_attachments_in_part(Head(parts)) \o AttachmentsOfParts(Tail(parts))

\* Mutant: an attachment id is listed once.
RECURSIVE Deduplicated(_)
Deduplicated(entries) ==
    IF entries = <<>> THEN <<>>
    ELSE LET rest == Deduplicated(SubSeq(entries, 1, Len(entries) - 1))
             last == entries[Len(entries)]
         IN  IF \E i \in 1..Len(rest) : rest[i].attachmentId = last.attachmentId
             THEN rest ELSE Append(rest, last)

ExtractAttachmentsOnce(message) ==
    Deduplicated(find_attachments_in_part(message.payload))

\* extract_attachments, lines 149-175.
extract_attachments(message) == find_attachments_in_part(message.payload)

\* The parts without subparts that messages are built from here: plain text,
\* plain text with whitespace at both ends, plain text whose data does not
\* decode, HTML, HTML with no visible text, HTML with a double blank and a
\* byte that is no UTF-8, an attachment, an inline part with a filename and
\* no attachment id, a second part with the same attachment id, and a part
\* with an attachment id and no filename.
Leaves ==
    { Part("text/plain", "", <<"H", "i">>, "", 2, <<>>),
      Part("text/plain", "", <<" ", "H", "\n">>, "", 3, <<>>),
      Part("text/plain", "", <<"H", BadPadding>>, "", 2, <<>>),
      Part("text/html", "", <<"<p>", "H", "</p>">>, "", 3, <<>>),
      Part("text/html", "", <<"<p>", " ", "</p>", "<script>">>, "", 4, <<>>),
      Part("text/html", "", <<"H", " ", " ", "i", "0xff">>, "", 5, <<>>),
      Part("application/pdf", "f.pdf", <<>>, "att1", 9, <<>>),
      Part("image/png", "i.png", <<"H">>, "", 1, <<>>),
      Part("text/plain", "n.txt", <<>>, "att1", 7, <<>>),
      Part("text/html", "", <<>>, "att2", 0, <<>>) }

\* A part with subparts: a multipart container, or a text part that has
\* data of its own.
Containers(parts) ==
    { Part("multipart/mixed", "", <<>>, "", 0, parts),
      Part("text/plain", "", <<"A">>, "", 1, parts) }

\* The lists of one or two of the given parts.
OneOrTwo(S) == {<<a>> : a \in S} \cup {<<a, b>> : a \in S, b \in S}

\* Containers of leaves.
Multiparts == UNION {Containers(parts) : parts \in OneOrTwo(Leaves)}

\* A container of a leaf and a container of leaves, in either order.
Nested ==
    { Part("multipart/mixed", "", <<>>, "", 0, parts) :
        parts \in {<<a, b>> : a \in Leaves, b \in Multiparts}
                  \cup {<<b, a>> : a \in Leaves, b \in Multiparts} }

\* The messages given to the decoders.
Messages ==
    {[payload |-> tree] : tree \in {NoPayload} \cup Leaves \cup Multiparts \cup Nested}

\* ------------------------------------------------------------------ state
VARIABLES
    historyId,              \* the mailbox's current history id (remote)
    state_file,             \* gmail_state.json
    service,                \* GmailHandler.service is built
    gmail_handler,          \* main.gmail_handler is set
    watch_manager,          \* main.watch_manager is set
    caller,                 \* each request thread's call of a watch endpoint
    GMAIL_WATCH_LABEL_IDS,  \* the environment variable
    accepted,               \* history notifications queued so far
    faults,                 \* failures of the environment so far
    pass,                   \* each pool thread's background task
    request,                \* the shape of the last push /email-notify got
    response,               \* the answer of /email-notify to it
    started,                \* background tasks started so far
    GMAIL_WATCH_LABELS,     \* the environment variable
    subscription,           \* the mailbox's watch at the remote service
    now,                    \* the time
    watch_service,          \* WatchManager.service is built
    watch_call,             \* the last call of a watch endpoint
    message,                \* the message given to the decoders
    decoded,                \* the last call of a decoder and what it returned
    before,                 \* state_file when process_history was last entered
    prev                    \* the call that returned last: its cursor, whether
                            \* it left the cursor settled (skipped it, or saved
                            \* it), whether mail arrived since it returned, the
                            \* start of its range, its calls of the consumer,
                            \* its exception and how its save went

vars ==
    <<historyId, state_file, service, gmail_handler, GMAIL_WATCH_LABEL_IDS,
      accepted, faults, pass, before, prev, request, response, started,
      GMAIL_WATCH_LABELS, subscription, now, watch_service, watch_call,
      message, decoded, watch_manager, caller>>

\* What the watch endpoints work on, and what the webhook and its passes
\* work on.
watch_vars ==
    <<GMAIL_WATCH_LABELS, subscription, now, watch_service, watch_call>>

decoder_vars == <<message, decoded>>

mail_vars ==
    <<historyId, state_file, service, GMAIL_WATCH_LABEL_IDS, accepted, faults,
      pass, before, prev, request, response, started>>

\* A thread with no task. The fields of a task: its position, the argument
\* of process_history, what get_last_processed_history_id returned, the
\* start of the range (None: not fixed), the history.list request it sent
\* (<<>>: none yet), the messagesAdded entries of the response, what happened to each entry handled so far, how
\* process_history returned, how save_last_processed_history_id went, and
\* the exception raised inside process_history.
Idle ==
    [pc |-> "idle", history_id |-> None, last_processed_id |-> None,
     start_history_id |-> None, history_request |-> <<>>,
     events |-> <<>>, results |-> <<>>,
     outcome |-> "none", saved |-> "no", exception |-> "none",
     calls |-> <<>>]

NoCall ==
    [history_id |-> None, settled |-> FALSE, new_mail |-> FALSE,
     skipped |-> FALSE, start_history_id |-> None, calls |-> <<>>,
     exception |-> "none", saved |-> "no"]

\* ------------------------------------------------------------ watch manager
\* The clock runs to MaxTime; a watch expires WatchLifetime after its request.
MaxTime == 2
WatchLifetime == 1

\* An environment variable that is not set.
Unset == <<"unset">>

\* Config.get_gmail_watch_labels over the value of GMAIL_WATCH_LABELS: INBOX
\* when unset, else the stripped, non-empty comma-separated fields.
get_gmail_watch_labels(env) ==
    LET fields == split(IF env = Unset THEN <<"INBOX">> ELSE env, ",")
        stripped == [i \in 1..Len(fields) |-> strip(fields[i])]
    IN  SelectSeq(stripped, LAMBDA f : f # <<>>)

\* The values GMAIL_WATCH_LABELS takes: unset, one name, blanks and a comma.
LabelNameEnvs == {Unset, <<"Work">>, <<" ", ",">>}

\* The watch of the mailbox at the remote service.
NoSubscription == [state |-> "NoSubscription", expiration |-> 0, labelIds |-> <<>>]

Active(expiration, labelIds) ==
    [state |-> "Active", expiration |-> expiration, labelIds |-> labelIds]

\* How a remote call ends: "ok", or an HttpError whose error_details is a
\* list with the reason "failedPrecondition" or an "other" reason, is empty
\* ("unknown"), or is a string ("str_details"). users.stop can answer
\* failedPrecondition only when there is no watch.
Outcomes == {"ok", "other", "unknown", "str_details"}

StopOutcomes(sub) ==
    Outcomes \cup (IF sub.state = "NoSubscription" THEN {"failedPrecondition"} ELSE {})

\* users.stop: the watch after the call.
Stopped(sub, outcome) == IF outcome = "ok" THEN NoSubscription ELSE sub

\* The requests a manager sends.
StopRequest == [method |-> "stop", body |-> <<>>]

WatchRequest(body) == [method |-> "watch", body |-> <<body>>]

ProfileRequest == [method |-> "getProfile", body |-> <<>>]

\* What a method of the manager returns.
Success(history_id, expiration) ==
    [status |-> "success", historyId |-> history_id, expiration |-> expiration,
     error_reason |-> "none"]

Error(reason) ==
    [status |-> "error", historyId |-> None, expiration |-> 0,
     error_reason |-> reason]

\* A call of a method: whether it raised, the requests it sent, the watch
\* after it, and what it returned.
Call(raised, requests, sub, result) ==
    [raised |-> raised, requests |-> requests, subscription |-> sub,
     result |-> result]

\* Mutant: label names come first.
SelectNamesFirst(ids, names) == IF names # <<>> THEN names ELSE ids

\* renew_watch, lines 134-142: label ids when configured, else label names.
SelectLabels(ids, names) == IF ids # <<>> THEN ids ELSE names

\* renew_watch, lines 144-149: the body of the watch request.
WatchBody(ids, names) ==
    [topicName |-> "projects/p/topics/t",
     labelIds |-> SelectLabels(ids, names),
     labelFilterAction |-> "include"]

\* renew_watch after its stop request, lines 134-183: the watch request and
\* the result. The handler of a failed watch reads error_details[0].get,
\* which raises out of renew_watch when error_details is a string.
Watch(sub, watch_outcome, ids, names, time, head) ==
    LET body == WatchBody(ids, names)
        requests == <<StopRequest, WatchRequest(body)>>
    IN  IF watch_outcome = "ok"
        THEN Call(FALSE, requests, Active(time + WatchLifetime, body.labelIds),
                  Success(head, time + WatchLifetime))
        ELSE IF watch_outcome = "str_details"
        THEN Call(TRUE, requests, sub, Error("none"))
        ELSE Call(FALSE, requests, sub, Error(watch_outcome))

\* Mutant: a failed stop ends renew_watch with an error.
RenewStopsOnError(sub, built, stop_outcome, watch_outcome, ids, names, time, head) ==
    IF ~built THEN Call(FALSE, <<>>, sub, Error("none"))
    ELSE IF stop_outcome # "ok"
    THEN Call(FALSE, <<StopRequest>>, sub, Error(stop_outcome))
    ELSE Watch(Stopped(sub, stop_outcome), watch_outcome, ids, names, time, head)

\* WatchManager.renew_watch, lines 109-189. get_service raising, or the stop
\* handler reading error_details[0].get of a string, ends in `except
\* Exception`; any other failure of the stop is logged and the watch request
\* follows.
renew_watch(sub, built, stop_outcome, watch_outcome, ids, names, time, head) ==
    IF ~built THEN Call(FALSE, <<>>, sub, Error("none"))
    ELSE IF stop_outcome = "str_details"
    THEN Call(FALSE, <<StopRequest>>, sub, Error("none"))
    ELSE Watch(Stopped(sub, stop_outcome), watch_outcome, ids, names, time, head)

\* WatchManager.stop_watch, lines 198-220: it returns in every case.
stop_watch(sub, built, stop_outcome) ==
    IF ~built THEN Call(FALSE, <<>>, sub, Error("none"))
    ELSE IF stop_outcome = "ok"
    THEN Call(FALSE, <<StopRequest>>, NoSubscription, Success(None, 0))
    ELSE Call(FALSE, <<StopRequest>>, sub, Error("none"))

\* WatchManager.get_watch_status, lines 229-259.
get_watch_status(sub, built, outcome, head) ==
    IF ~built THEN Call(FALSE, <<>>, sub, Error("none"))
    ELSE IF outcome = "ok"
    THEN Call(FALSE, <<ProfileRequest>>, sub, Success(head, 0))
    ELSE IF outcome = "str_details"
    THEN Call(TRUE, <<ProfileRequest>>, sub, Error("none"))
    ELSE Call(FALSE, <<ProfileRequest>>, sub, Error(outcome))

\* The endpoints of main.py: 200 with the result when its status is success;
\* otherwise, or when anything was raised, HTTP 500.
StatusCode(initialised, call) ==
    IF initialised /\ ~call.raised /\ call.result.status = "success"
    THEN 200 ELSE 500

\* The record of an endpoint's call; no manager is called when
\* get_service_account_info raises.
WatchCall(op, initialised, sub, stop_outcome, call) ==
    [op |-> op, initialised |-> initialised, before |-> sub,
     stop_outcome |-> IF initialised /\ Len(call.requests) > 0
                      THEN stop_outcome ELSE "none",
     raised |-> initialised /\ call.raised,
     requests |-> IF initialised THEN call.requests ELSE <<>>,
     result |-> IF initialised THEN call.result ELSE Error("none"),
     http |-> StatusCode(initialised, call)]

NoWatchCall ==
    WatchCall("none", FALSE, NoSubscription, "none",
              Call(FALSE, <<>>, NoSubscription, Error("none")))

\* No push yet.
NoRequest == [envelope |-> "none", data |-> "none", keys |-> {}]

\* The HTTP answer: its status code and the 'type' of its body.
Answer(status, type) == [status |-> status, type |-> type]

NoResponse == Answer(0, "none")

\* A thread that is in no watch endpoint. The fields of a call: its position,
\* the endpoint, and the exception raised in it.
NotCalling == [pc |-> "idle", op |-> "none", raised |-> "none"]

\* A call of a decoder: its arguments and what it returned.
Decoded(op, html_part, strip_html, text, attachments) ==
    [op |-> op, html_part |-> html_part, strip_html |-> strip_html,
     text |-> text, attachments |-> attachments]

NoDecode == Decoded("none", FALSE, FALSE, <<>>, <<>>)

\* The state after the module is loaded, the environment as given.
Start(label_names, messages) ==
    /\ historyId = FirstHistoryId
    /\ state_file \in {Absent, Json(str(FirstHistoryId))}
    /\ service = FALSE
    /\ gmail_handler = FALSE
    /\ watch_manager = FALSE
    /\ caller = [t \in Threads |-> NotCalling]
    /\ GMAIL_WATCH_LABEL_IDS \in LabelIdEnvs
    /\ accepted = 0
    /\ faults = 0
    /\ pass = [t \in Threads |-> Idle]
    /\ before = state_file
    /\ prev = NoCall
    /\ request = NoRequest
    /\ response = NoResponse
    /\ started = 0
    /\ GMAIL_WATCH_LABELS \in label_names
    /\ subscription = NoSubscription
    /\ now = 0
    /\ watch_service = FALSE
    /\ watch_call = NoWatchCall
    /\ message \in messages
    /\ decoded = NoDecode

\* The webhook and its passes never read GMAIL_WATCH_LABELS.
Init == Start({Unset}, {[payload |-> NoPayload]})

\* The watch endpoints' start: every value of GMAIL_WATCH_LABELS.
WatchInit == Start(LabelNameEnvs, {[payload |-> NoPayload]})

\* The decoders' start: every message.
DecoderInit == Start({Unset}, Messages)

\* The outcomes of a step that can fail: a failure only while the budget lasts.
Failures == IF faults < MaxFaults THEN BOOLEAN ELSE {FALSE}

Count(failed) == faults' = IF failed THEN faults + 1 ELSE faults

\* A new change in the remote mailbox.
NewMail ==
    /\ historyId < MaxHistoryId
    /\ historyId' = historyId + 1
    /\ prev' = [prev EXCEPT !.new_mail = TRUE]
    /\ UNCHANGED <<state_file, service, gmail_handler, watch_manager, GMAIL_WATCH_LABEL_IDS,
                   accepted, faults, pass, before>>
    /\ UNCHANGED <<request, response, started>>
    /\ UNCHANGED <<watch_vars, decoder_vars, caller>>

\* The cursors a push notification can carry now: no history id beyond the
\* mailbox's.
NotifiedCursors ==
    {c \in IncomingCursors : ValueError(c) \/ int(c) <= historyId}

\* ---------------------------------------------------------------- webhook
\* A push request: what the envelope holds ("empty": no JSON payload,
\* "no_message", "no_data", "data"), what message.data decodes to
\* ("bad_base64", "bad_utf8", "text" that is no JSON, a JSON "scalar", a JSON
\* "object"), the keys of the object, and its historyId as str() gives it.
Notification(envelope, data, keys, cursor) ==
    [envelope |-> envelope, data |-> data, keys |-> keys, historyId |-> cursor]

\* The request without its cursor.
Shape(payload) ==
    [envelope |-> payload.envelope, data |-> payload.data, keys |-> payload.keys]

\* The pushes that can arrive now.
Envelopes ==
    {Notification(e, "none", {}, None) : e \in {"empty", "no_message", "no_data"}}
    \cup {Notification("data", d, {}, None) :
            d \in {"bad_base64", "bad_utf8", "text", "scalar"}}
    \cup {Notification("data", "object", k, None) : k \in SUBSET {"emailAddress"}}
    \cup {Notification("data", "object", k \cup {"historyId"}, h) :
            k \in SUBSET {"emailAddress"}, h \in NotifiedCursors}

\* The handler returns a body, with the cursor of the task it queued, if any.
Returns(type, task) ==
    [raised |-> "none", response |-> Answer(200, type), task |-> task]

\* The handler raises; an HTTPException carries its status code.
Raises(exception, status) ==
    [raised |-> exception, response |-> Answer(status, "error"), task |-> None]

\* Mutant: a notification that also names the mailbox is no history
\* notification.
HistoryIdAlone(keys) == keys = {"historyId"}

\* Line 264: 'historyId' in notification_data.
HasHistoryId(keys) == "historyId" \in keys

\* Lines 259-337: the dispatch on the decoded notification.
Dispatch(payload) ==
    IF payload.data = "text" THEN Returns("raw_message", None)
    ELSE IF payload.data = "scalar" THEN Raises("TypeError", 0)
    ELSE IF HasHistoryId(payload.keys)
    THEN Returns(IF "emailAddress" \in payload.keys
                 THEN "watch_notification" ELSE "history", payload.historyId)
    ELSE IF "emailAddress" \in payload.keys THEN Returns("profile", None)
    ELSE Returns("unknown_json", None)

\* Lines 252-341: decoding message.data; a ValueError or UnicodeDecodeError
\* is raised again as an HTTPException with status 400.
Decode(payload) ==
    IF payload.data \in {"bad_base64", "bad_utf8"}
    THEN Raises("HTTPException", 400)
    ELSE Dispatch(payload)

\* Lines 233-250: the checks on the envelope.
Validate(payload) ==
    IF payload.envelope \in {"empty", "no_message", "no_data"}
    THEN Raises("HTTPException", 400)
    ELSE Decode(payload)

\* Lines 228-345: the handler. Everything raised inside the try, HTTPException
\* (a subclass of Exception) included, reaches `except Exception` and is
\* raised again as an HTTPException with status 500.
email_notify(payload, initialised) ==
    LET r == IF initialised THEN Validate(payload) ELSE Raises("Exception", 0)
    IN  IF r.raised # "none" THEN Raises("HTTPException", 500) ELSE r

\* Mutant: the handler runs the start of the pass itself, before it answers.
EmailNotifyInline(t, payload) ==
    /\ pass[t].pc = "idle"
    /\ accepted < MaxNotifications
    /\ gmail_handler' = TRUE
    /\ watch_manager' = TRUE
    /\ request' = Shape(payload)
    /\ response' = email_notify(payload, TRUE).response
    /\ IF email_notify(payload, TRUE).task # None
       THEN /\ pass' = [pass EXCEPT ![t] =
                   [Idle EXCEPT !.pc = "history_list",
                                !.history_id = payload.historyId,
                                !.start_history_id = payload.historyId]]
            /\ accepted' = accepted + 1
            /\ service' = TRUE
       ELSE UNCHANGED <<pass, accepted, service>>
    /\ UNCHANGED <<historyId, state_file, GMAIL_WATCH_LABEL_IDS,
                   faults, before, prev, started>>
    /\ UNCHANGED <<watch_vars, decoder_vars, caller>>

\* /email-notify: get_service_account_info sets the handlers on first use or
\* raises; a history notification is queued as a background task, which a
\* pool thread t runs after the answer.
EmailNotifyRequest(t, payload) ==
    /\ pass[t].pc = "idle"
    /\ accepted < MaxNotifications
    /\ \E credentials \in BOOLEAN :
         /\ gmail_handler' = (gmail_handler \/ credentials)
         /\ watch_manager' = gmail_handler'
         /\ LET r == email_notify(payload, gmail_handler')
            IN  /\ request' = Shape(payload)
                /\ response' = r.response
                /\ IF r.task # None
                   THEN /\ pass' = [pass EXCEPT ![t] =
                               [Idle EXCEPT !.pc = "queued", !.history_id = r.task]]
                        /\ accepted' = accepted + 1
                   ELSE UNCHANGED <<pass, accepted>>
    /\ UNCHANGED <<historyId, state_file, service, GMAIL_WATCH_LABEL_IDS,
                   faults, before, prev, started>>
    /\ UNCHANGED <<watch_vars, decoder_vars, caller>>

\* /email-notify given the notification Gmail publishes for a mailbox change.
EmailNotify(t, h) ==
    EmailNotifyRequest(t, Notification("data", "object",
                                       {"historyId", "emailAddress"}, h))

\* process_history returns.
Returned(p, how, how_saved) ==
    [p EXCEPT !.pc = "returned", !.outcome = how, !.saved = how_saved]

\* Mutant: the cursor is saved on the way out of a failed pass.
RaisedThenSave(p, exception) ==
    [p EXCEPT !.pc = "save_read", !.exception = exception]

\* Mutant: only the HttpError clause.
RaisedHttpErrorOnly(p, exception) ==
    IF exception = "HttpError"
    THEN Returned([p EXCEPT !.exception = exception], "Failed", p.saved)
    ELSE [p EXCEPT !.pc = "raised", !.exception = exception]

\* An exception reaches the except clauses that end process_history
\* (lines 203-206): an HttpError and any other Exception are caught and
\* logged, and the call returns.
Raised(p, exception) ==
    IF exception \in {"HttpError", "Exception", "KeyError"}
    THEN Returned([p EXCEPT !.exception = exception], "Failed", p.saved)
    ELSE [p EXCEPT !.pc = "raised", !.exception = exception]

\* process_gmail_history_background into process_history, lines 142-165: the
\* handlers are set (get_service_account_info returns at once); the service
\* is built on first use, which can raise; the stored cursor is read; a
\* cursor that is not newer is skipped, else the start of the range is fixed.
ProcessHistory(t) ==
    /\ pass[t].pc = "queued"
    /\ gmail_handler
    /\ before' = state_file
    /\ \E build_error \in Failures, io_error \in Failures :
         LET p == pass[t]
             last == get_last_processed_history_id(state_file, io_error)
             failed == (~service /\ build_error)
                       \/ (service' /\ state_file.kind = "json" /\ io_error)
         IN  /\ service' = (service \/ ~build_error)
             /\ ~(build_error /\ io_error)
             /\ ~service' => ~io_error
             /\ Count(failed)
             /\ pass' = [pass EXCEPT ![t] =
                    IF ~service' THEN Raised(p, "Exception")
                    ELSE IF NotNewer(p.history_id, last)
                    THEN Returned([p EXCEPT !.last_processed_id = last],
                                  "Skipped", "no")
                    ELSE [p EXCEPT !.pc = "history_list",
                                   !.last_processed_id = last,
                                   !.start_history_id =
                                       StartHistoryId(p.history_id, last)]]
    /\ UNCHANGED <<historyId, state_file, gmail_handler, watch_manager, GMAIL_WATCH_LABEL_IDS,
                   accepted, prev>>
    /\ started' = started + 1
    /\ UNCHANGED <<request, response>>
    /\ UNCHANGED <<watch_vars, decoder_vars, caller>>

\* Lines 169-183: history.list from the start cursor. The remote service
\* answers with the records after it, or with an error (always, for a start
\* that is no number). No records: the cursor is saved at once.
HistoryList(t) ==
    /\ pass[t].pc = "history_list"
    /\ \E http_error \in Failures :
         LET p == [pass[t] EXCEPT !.history_request =
                      <<HistoryListRequest(pass[t].start_history_id)>>]
             listed == HistoryEvents(int(p.start_history_id), historyId)
         IN  /\ Count(http_error)
             /\ pass' = [pass EXCEPT ![t] =
                    IF http_error \/ ValueError(p.start_history_id)
                    THEN Raised(p, "HttpError")
                    ELSE [p EXCEPT !.events = listed,
                                   !.pc = IF listed = <<>> THEN "save_read"
                                          ELSE "fan_out"]]
    /\ UNCHANGED <<historyId, state_file, service, gmail_handler, watch_manager,
                   GMAIL_WATCH_LABEL_IDS, accepted, before, prev>>
    /\ UNCHANGED <<request, response, started>>
    /\ UNCHANGED <<watch_vars, decoder_vars, caller>>

\* The fan-out loop, one entry per step. `escaping` are the results that
\* leave the loop as an exception; every other result is recorded and the
\* loop goes on, to the save of the cursor after the last entry.
FanOutWith(t, escaping) ==
    /\ pass[t].pc = "fan_out"
    /\ \E fetch \in {"ok", "HttpError", "Exception", "no_id"},
          consumer \in {"ok", "sink_failed", "raised"} :
         LET p == pass[t]
             entry == p.events[Len(p.results) + 1]
             result == FanOutEntry(entry, fetch, consumer, GMAIL_WATCH_LABEL_IDS)
             failed == result \in {"not_fetched", "forwarded_failed"}
         IN  /\ failed => faults < MaxFaults
             /\ (result \notin Forwarded) => consumer = "ok"
             /\ (result = "KeyError") => fetch = "ok"
             /\ Count(failed)
             /\ pass' = [pass EXCEPT ![t] =
                    IF result \in escaping
                    THEN Raised(p, IF result = "KeyError" THEN "KeyError"
                                   ELSE "Exception")
                    ELSE [p EXCEPT !.results = Append(@, result),
                                   !.calls = IF result \in Forwarded
                                             THEN Append(@, entry.message)
                                             ELSE @,
                                   !.pc = IF Len(p.results) + 1 = Len(p.events)
                                          THEN "save_read" ELSE "fan_out"]]
    /\ UNCHANGED <<historyId, state_file, service, gmail_handler, watch_manager,
                   GMAIL_WATCH_LABEL_IDS, accepted, before, prev>>
    /\ UNCHANGED <<request, response, started>>
    /\ UNCHANGED <<watch_vars, decoder_vars, caller>>

\* Mutant: fetch_message lets its exception through.
FanOutFetchEscapes(t) == FanOutWith(t, {"KeyError", "not_fetched"})

\* Mutant: the consumer's exception is caught nowhere.
FanOutConsumerEscapes(t) == FanOutWith(t, {"KeyError", "forwarded_failed"})

\* Mutant: an entry without a message id is passed over.
FanOutPassesOver(t) == FanOutWith(t, {})

\* Only an entry without a message id raises out of the loop (line 189).
FanOut(t) == FanOutWith(t, {"KeyError"})

\* save_last_processed_history_id, lines 120-123: the present state is read
\* first; a file json.load rejects, or a failing read, ends the save in its
\* except clause with nothing written.
SaveRead(t) ==
    /\ pass[t].pc = "save_read"
    /\ \E io_error \in Failures :
         /\ io_error => state_file.kind = "json"
         /\ Count(io_error)
         /\ pass' = [pass EXCEPT ![t] =
                IF state_file.kind = "corrupt" \/ io_error
                THEN Returned(@, "Completed", "error_read")
                ELSE [@ EXCEPT !.pc = "save_open"]]
    /\ UNCHANGED <<historyId, state_file, service, gmail_handler, watch_manager,
                   GMAIL_WATCH_LABEL_IDS, accepted, before, prev>>
    /\ UNCHANGED <<request, response, started>>
    /\ UNCHANGED <<watch_vars, decoder_vars, caller>>

\* Line 127: open(state_file, 'w') truncates the file, or raises.
SaveOpen(t) ==
    /\ pass[t].pc = "save_open"
    /\ \E io_error \in Failures :
         /\ Count(io_error)
         /\ state_file' = IF io_error THEN state_file ELSE Truncated
         /\ pass' = [pass EXCEPT ![t] =
                IF io_error THEN Returned(@, "Completed", "error_open")
                ELSE [@ EXCEPT !.pc = "save_dump"]]
    /\ UNCHANGED <<historyId, service, gmail_handler, watch_manager, GMAIL_WATCH_LABEL_IDS,
                   accepted, before, prev>>
    /\ UNCHANGED <<request, response, started>>
    /\ UNCHANGED <<watch_vars, decoder_vars, caller>>

\* Line 128 and the end of the with block: the state is written and the file
\* closed, or the write raises and the file stays as it is.
SaveDump(t) ==
    /\ pass[t].pc = "save_dump"
    /\ \E io_error \in Failures :
         /\ Count(io_error)
         /\ state_file' = IF io_error THEN state_file
                          ELSE WriteAt0(SavedCursor(pass[t]), state_file)
         /\ pass' = [pass EXCEPT ![t] =
                Returned(@, "Completed",
                         IF io_error THEN "error_dump" ELSE "ok")]
    /\ UNCHANGED <<historyId, service, gmail_handler, watch_manager, GMAIL_WATCH_LABEL_IDS,
                   accepted, before, prev>>
    /\ UNCHANGED <<request, response, started>>
    /\ UNCHANGED <<watch_vars, decoder_vars, caller>>

\* process_gmail_history_background returns to the web layer (lines 64-69):
\* after process_history returned, or from its own except clause, which
\* catches every Exception.
BackgroundReturn(t) ==
    /\ pass[t].pc \in {"returned", "raised"}
    /\ pass' = [pass EXCEPT ![t] = Idle]
    /\ prev' = [history_id |-> pass[t].history_id,
                settled |-> pass[t].outcome = "Skipped" \/ pass[t].saved = "ok",
                new_mail |-> FALSE,
                skipped |-> \E i \in 1..Len(pass[t].results) :
                    pass[t].results[i] \in {"not_fetched", "forwarded_failed"},
                start_history_id |-> pass[t].start_history_id,
                calls |-> pass[t].calls,
                exception |-> pass[t].exception,
                saved |-> pass[t].saved]
    /\ UNCHANGED <<historyId, state_file, service, gmail_handler, watch_manager,
                   GMAIL_WATCH_LABEL_IDS, accepted, faults, before>>
    /\ UNCHANGED <<request, response, started>>
    /\ UNCHANGED <<watch_vars, decoder_vars, caller>>

\* ------------------------------------------------------- watch endpoints
\* One call of a watch endpoint: get_service_account_info, then the method
\* of the manager given as the call it makes once its service is built or
\* not (built), then the answer.
Endpoint(op, credentials, built, stop_outcome, call) ==
    /\ gmail_handler' = (gmail_handler \/ credentials)
    /\ watch_manager' = gmail_handler'
    /\ watch_service' = (watch_service \/ (gmail_handler' /\ built))
    /\ subscription' = IF gmail_handler' THEN call.subscription ELSE subscription
    /\ watch_call' = WatchCall(op, gmail_handler', subscription, stop_outcome, call)
    /\ UNCHANGED <<GMAIL_WATCH_LABELS, now>>
    /\ UNCHANGED <<mail_vars, decoder_vars, caller>>

\* POST /renew-watch.
RenewWatch ==
    \E credentials \in BOOLEAN, build_ok \in BOOLEAN,
       stop_outcome \in StopOutcomes(subscription), watch_outcome \in Outcomes :
        LET built == watch_service \/ build_ok
        IN  Endpoint("renew", credentials, built, stop_outcome,
                     renew_watch(subscription, built, stop_outcome, watch_outcome,
                                 get_gmail_watch_label_ids(GMAIL_WATCH_LABEL_IDS),
                                 get_gmail_watch_labels(GMAIL_WATCH_LABELS),
                                 now, str(historyId)))

\* POST /stop-watch.
StopWatch ==
    \E credentials \in BOOLEAN, build_ok \in BOOLEAN,
       stop_outcome \in StopOutcomes(subscription) :
        LET built == watch_service \/ build_ok
        IN  Endpoint("stop", credentials, built, stop_outcome,
                     stop_watch(subscription, built, stop_outcome))

\* Mutant: the status query renews the watch.
WatchStatusRenews ==
    \E credentials \in BOOLEAN, build_ok \in BOOLEAN, outcome \in Outcomes :
        LET built == watch_service \/ build_ok
        IN  Endpoint("status", credentials, built, "none",
                     renew_watch(subscription, built, "ok", outcome,
                                 get_gmail_watch_label_ids(GMAIL_WATCH_LABEL_IDS),
                                 get_gmail_watch_labels(GMAIL_WATCH_LABELS),
                                 now, str(historyId)))

\* GET /watch-status.
WatchStatus ==
    \E credentials \in BOOLEAN, build_ok \in BOOLEAN, outcome \in Outcomes :
        LET built == watch_service \/ build_ok
        IN  Endpoint("status", credentials, built, "none",
                     get_watch_status(subscription, built, outcome, str(historyId)))

\* Time passes, past the expiration of a watch too.
Tick ==
    /\ now < MaxTime
    /\ now' = now + 1
    /\ UNCHANGED <<gmail_handler, watch_manager, GMAIL_WATCH_LABELS, subscription,
                   watch_service, watch_call>>
    /\ UNCHANGED <<mail_vars, decoder_vars, caller>>

\* ---------------------------------------------- initialisation, step by step
\* The watch endpoints are plain functions, which the server runs on pool
\* threads: their calls of get_service_account_info overlap.
\* A request for a watch endpoint arrives (lines 348, 374, 397).
Request(t, op) ==
    /\ caller[t].pc = "idle"
    /\ caller' = [caller EXCEPT ![t] = [pc |-> "check", op |-> op, raised |-> "none"]]
    /\ UNCHANGED <<gmail_handler, watch_manager>>
    /\ UNCHANGED <<mail_vars, decoder_vars>>
    /\ UNCHANGED watch_vars

\* get_service_account_info, line 119: it returns at once when gmail_handler
\* is set.
CheckInitialised(t) ==
    /\ caller[t].pc = "check"
    /\ caller' = [caller EXCEPT ![t].pc = IF gmail_handler THEN "use" ELSE "load"]
    /\ UNCHANGED <<gmail_handler, watch_manager>>
    /\ UNCHANGED <<mail_vars, decoder_vars>>
    /\ UNCHANGED watch_vars

\* Lines 122-161: the credentials are loaded, or an exception is raised,
\* which the endpoint answers with 500.
LoadCredentials(t) ==
    /\ caller[t].pc = "load"
    /\ \E credentials \in BOOLEAN :
         caller' = [caller EXCEPT ![t] =
             IF credentials THEN [@ EXCEPT !.pc = "gmail_handler"]
             ELSE [@ EXCEPT !.pc = "answered", !.raised = "Exception"]]
    /\ UNCHANGED <<gmail_handler, watch_manager>>
    /\ UNCHANGED <<mail_vars, decoder_vars>>
    /\ UNCHANGED watch_vars

\* Line 164: gmail_handler = GmailHandler(...), or the constructor raises.
SetGmailHandler(t) ==
    /\ caller[t].pc = "gmail_handler"
    /\ \E constructed \in BOOLEAN :
         /\ gmail_handler' = (gmail_handler \/ constructed)
         /\ caller' = [caller EXCEPT ![t] =
                IF constructed THEN [@ EXCEPT !.pc = "watch_manager"]
                ELSE [@ EXCEPT !.pc = "answered", !.raised = "Exception"]]
    /\ UNCHANGED watch_manager
    /\ UNCHANGED <<mail_vars, decoder_vars>>
    /\ UNCHANGED watch_vars

\* Line 165: watch_manager = WatchManager(...), whose constructor does what
\* the one of GmailHandler has just done.
SetWatchManager(t) ==
    /\ caller[t].pc = "watch_manager"
    /\ watch_manager' = TRUE
    /\ caller' = [caller EXCEPT ![t].pc = "use"]
    /\ UNCHANGED gmail_handler
    /\ UNCHANGED <<mail_vars, decoder_vars>>
    /\ UNCHANGED watch_vars

\* The calls the manager can make for an endpoint, each with the outcome of
\* its stop request.
ManagerCalls(op, built) ==
    CASE op = "renew" ->
           {<<so, renew_watch(subscription, built, so, wo,
                              get_gmail_watch_label_ids(GMAIL_WATCH_LABEL_IDS),
                              get_gmail_watch_labels(GMAIL_WATCH_LABELS),
                              now, str(historyId))>> :
               so \in StopOutcomes(subscription), wo \in Outcomes}
      [] op = "stop" ->
           {<<so, stop_watch(subscription, built, so)>> :
               so \in StopOutcomes(subscription)}
      [] OTHER ->
           {<<"none", get_watch_status(subscription, built, o, str(historyId))>> :
               o \in Outcomes}

\* Lines 362, 385, 412: watch_manager.renew_watch() and the like, and the
\* answer; on None the attribute lookup raises AttributeError, which the
\* endpoint answers with 500.
UseWatchManager(t) ==
    /\ caller[t].pc = "use"
    /\ caller' = [caller EXCEPT ![t] =
           [@ EXCEPT !.pc = "answered",
                     !.raised = IF watch_manager THEN "none" ELSE "AttributeError"]]
    /\ \E build_ok \in BOOLEAN :
         \E made \in ManagerCalls(caller[t].op, watch_service \/ build_ok) :
            /\ watch_service' = (watch_service \/ (watch_manager /\ build_ok))
            /\ subscription' = IF watch_manager THEN made[2].subscription
                               ELSE subscription
            /\ watch_call' = WatchCall(caller[t].op, watch_manager, subscription,
                                       made[1], made[2])
    /\ UNCHANGED <<gmail_handler, watch_manager, GMAIL_WATCH_LABELS, now>>
    /\ UNCHANGED <<mail_vars, decoder_vars>>

\* The answer is sent and the thread is free again.
Respond(t) ==
    /\ caller[t].pc = "answered"
    /\ caller' = [caller EXCEPT ![t] = NotCalling]
    /\ UNCHANGED <<gmail_handler, watch_manager>>
    /\ UNCHANGED <<mail_vars, decoder_vars>>
    /\ UNCHANGED watch_vars

\* --------------------------------------------------------------- decoders
\* A call of a decoder on the message.
DecodeCall(call) ==
    /\ decoded' = call
    /\ UNCHANGED <<message, gmail_handler, watch_manager, caller>>
    /\ UNCHANGED mail_vars
    /\ UNCHANGED watch_vars

\* extract_message_body(message, html_part, strip_html).
ExtractMessageBody ==
    \E html_part \in BOOLEAN, strip_html \in BOOLEAN :
        DecodeCall(Decoded("extract_message_body", html_part, strip_html,
                           extract_message_body(message, html_part, strip_html),
                           <<>>))

\* extract_attachments(message).
ExtractAttachments ==
    DecodeCall(Decoded("extract_attachments", FALSE, FALSE, <<>>,
                       extract_attachments(message)))

\* process_email(message), lines 62-66: the body it works with.
ProcessEmail ==
    DecodeCall(Decoded("process_email", FALSE, FALSE, BodyText(message), <<>>))

\* ---------------------------------------------------------- specifications
Next ==
    \/ NewMail
    \/ \E t \in Threads, h \in NotifiedCursors : EmailNotify(t, h)
    \/ \E t \in Threads : ProcessHistory(t)
    \/ \E t \in Threads : HistoryList(t)
    \/ \E t \in Threads : FanOut(t)
    \/ \E t \in Threads : SaveRead(t)
    \/ \E t \in Threads : SaveOpen(t)
    \/ \E t \in Threads : SaveDump(t)
    \/ \E t \in Threads : BackgroundReturn(t)

\* The web server as it is: background tasks of different requests run on
\* pool threads and overlap.
Spec == Init /\ [][Next]_vars

\* The threads with a pass queued or running.
InFlight == {t \in Threads : pass[t].pc # "idle"}

\* Calls issued one after another: a pass is queued only when none is in
\* flight.
SerialNext ==
    \/ NewMail
    \/ \E t \in Threads, h \in NotifiedCursors : InFlight = {} /\ EmailNotify(t, h)
    \/ \E t \in Threads : ProcessHistory(t)
    \/ \E t \in Threads : HistoryList(t)
    \/ \E t \in Threads : FanOut(t)
    \/ \E t \in Threads : SaveRead(t)
    \/ \E t \in Threads : SaveOpen(t)
    \/ \E t \in Threads : SaveDump(t)
    \/ \E t \in Threads : BackgroundReturn(t)

SerialSpec == Init /\ [][SerialNext]_vars

\* Calls issued one after another, and every push the endpoint can get.
WebhookNext ==
    \/ NewMail
    \/ \E t \in Threads, payload \in Envelopes :
         InFlight = {} /\ EmailNotifyRequest(t, payload)
    \/ \E t \in Threads : ProcessHistory(t)
    \/ \E t \in Threads : HistoryList(t)
    \/ \E t \in Threads : FanOut(t)
    \/ \E t \in Threads : SaveRead(t)
    \/ \E t \in Threads : SaveOpen(t)
    \/ \E t \in Threads : SaveDump(t)
    \/ \E t \in Threads : BackgroundReturn(t)

WebhookSpec == Init /\ [][WebhookNext]_vars

\* The watch endpoints, called one at a time, and the clock.
WatchNext ==
    \/ RenewWatch
    \/ StopWatch
    \/ WatchStatus
    \/ Tick

WatchSpec == WatchInit /\ [][WatchNext]_vars

\* The decoders, called on one message in any order.
DecoderNext ==
    \/ ExtractMessageBody
    \/ ExtractAttachments
    \/ ProcessEmail

DecoderSpec == DecoderInit /\ [][DecoderNext]_vars

\* The watch endpoints on the pool threads, their steps interleaved.
StartupNext ==
    \/ \E t \in Threads, op \in {"renew", "stop", "status"} : Request(t, op)
    \/ \E t \in Threads : CheckInitialised(t)
    \/ \E t \in Threads : LoadCredentials(t)
    \/ \E t \in Threads : SetGmailHandler(t)
    \/ \E t \in Threads : SetWatchManager(t)
    \/ \E t \in Threads : UseWatchManager(t)
    \/ \E t \in Threads : Respond(t)

StartupSpec == Init /\ [][StartupNext]_vars

\* The server runs every background task it has queued.
FairWebhookSpec ==
    WebhookSpec /\ \A t \in Threads : WF_vars(ProcessHistory(t))

\* ------------------------------------------------------------------ claims
\* What get_last_processed_history_id returns for a file that reads.
Stored(file) == get_last_processed_history_id(file, FALSE)

\* The number a cursor stands for in the freshness check.
CursorValue(c) == IF Truthy(c) /\ ~ValueError(c) THEN int(c) ELSE 0

\* A cursor that converts.
Numeric(c) == Truthy(c) /\ ~ValueError(c)

\* Message m passes the configured allow-list of label ids.
PassesAllowList(m) ==
    LET allow == get_gmail_watch_label_ids(GMAIL_WATCH_LABEL_IDS)
        labels == LabelIdsOf(m)
    IN  \/ allow = <<>>
        \/ \E i \in 1..Len(allow), j \in 1..Len(labels) : allow[i] = <<labels[j]>>

\* The entry the fan-out loop of p handles next.
NextEntry(p) == p.events[Len(p.results) + 1]

\* An exception raised after the list response is the KeyError of an entry
\* without a message id.
OnlyKeyErrorLeavesLoop(p) ==
    (p.events # <<>> /\ p.exception # "none") =>
        /\ p.exception = "KeyError"
        /\ Len(p.results) < Len(p.events)
        /\ NextEntry(p).message = NoId

\* A pass that ran through its batch saved the incoming cursor, and the file
\* holds it when the write went through.
RanToSave(p) ==
    /\ p.outcome = "Completed"
    /\ Len(p.results) = Len(p.events)
    /\ p.saved # "no"
    /\ p.saved = "ok" => state_file = Json(p.history_id)

\* C1: when process_history(incoming) reads a stored cursor and both convert
\* to integers with incoming <= stored, the call returns at once: no
\* history.list, no message fetched, no consumer call, and the state file as
\* it was when the call was entered.
C1_FreshnessGuard ==
    \A t \in Threads :
        LET p == pass[t] IN
        ( /\ p.pc \notin {"idle", "queued"}
          /\ Numeric(p.history_id)
          /\ Numeric(p.last_processed_id)
          /\ int(p.history_id) <= int(p.last_processed_id) )
        => /\ p.pc = "returned"
           /\ p.outcome = "Skipped"
           /\ p.start_history_id = None
           /\ p.events = <<>>
           /\ p.results = <<>>
           /\ p.saved = "no"
           /\ state_file = before

\* C1 witness: a cursor older than the stored one was skipped.
C1_Witness ==
    \E t \in Threads :
        /\ pass[t].outcome = "Skipped"
        /\ Numeric(pass[t].last_processed_id)
        /\ int(pass[t].history_id) < int(pass[t].last_processed_id)

\* C2, as claimed: over calls issued one after another with numeric cursors,
\* the value of the stored cursor never decreases, and a call that reached
\* the save of the cursor leaves the stored cursor at its own (the maximum).
C2_Monotone ==
    \A t \in Threads :
        LET p == pass[t] IN
        ( /\ p.pc = "returned"
          /\ Numeric(p.history_id)
          /\ Stored(before) # None => Numeric(Stored(before)) )
        => /\ CursorValue(Stored(state_file)) >= CursorValue(Stored(before))
           /\ p.saved # "no" => CursorValue(Stored(state_file)) = int(p.history_id)

Fetched(p, i) == i <= Len(p.results) /\ p.results[i] # "not_fetched"

\* After entry i of p's batch the loop went on: it is at entry i + 1, or
\* past it, or entry i + 1 has no message id.
WentOn(p, i) ==
    i < Len(p.events) =>
        \/ p.pc = "fan_out" /\ Len(p.results) >= i
        \/ Len(p.results) > i
        \/ p.exception = "KeyError" /\ Len(p.results) = i

C6_LabelFilter ==
    \A t \in Threads :
        LET p == pass[t] IN
        \A i \in 1..Len(p.results) :
            Fetched(p, i) =>
                (p.results[i] \in Forwarded <=> PassesAllowList(p.events[i].message))

\* C6 witness: with IMPORTANT on the allow-list, one pass skipped a message
\* without the label and delivered one with it.
C6_Witness ==
    \E t \in Threads :
        /\ get_gmail_watch_label_ids(GMAIL_WATCH_LABEL_IDS) = << <<"IMPORTANT">> >>
        /\ Len(pass[t].results) >= 2
        /\ pass[t].results[1] = "filtered"
        /\ pass[t].results[2] = "forwarded"

C8_FailureKeepsCursor ==
    \A t \in Threads :
        LET p == pass[t] IN
        (p.pc = "returned" /\ (p.outcome = "Failed" \/ p.exception # "none"))
        => /\ p.saved = "no"
           /\ state_file = before

\* C8 witness: the list call failed in a pass that had read a stored cursor.
C8_Witness ==
    \E t \in Threads :
        /\ pass[t].pc = "returned"
        /\ pass[t].exception = "HttpError"
        /\ Truthy(pass[t].last_processed_id)
        /\ state_file = before

\* C9: process_history never raises to its caller, whatever the remote
\* calls, the state file and the consumer do.
C9_NeverRaises == \A t \in Threads : pass[t].pc # "raised"

\* C9 witness: an exception other than HttpError was raised inside the pass,
\* after a delivery, and the pass returned.
C9_Witness ==
    \E t \in Threads :
        /\ pass[t].pc = "returned"
        /\ pass[t].exception = "KeyError"
        /\ pass[t].results # <<>>

\* The positions of a pass between its freshness check and its return.
Running == {"history_list", "fan_out", "save_read", "save_open", "save_dump"}

\* C10, as claimed: at most one synchronisation pass is in flight at a time.
C10_Serialized ==
    Cardinality({t \in Threads : pass[t].pc \in Running}) <= 1

\* Sequence a is a prefix of sequence b.
IsPrefix(a, b) == Len(a) <= Len(b) /\ SubSeq(b, 1, Len(a)) = a

\* C11: two overlapping passes that read the same stored cursor list history
\* from the same start, so the batch of one is a prefix of the batch of the
\* other: the same messages are handled by both. (Nothing orders their
\* writes: the witness ends with the lower cursor stored.)
C11_CursorRace ==
    \A t1, t2 \in Threads :
        LET p == pass[t1]
            q == pass[t2]
        IN  ( /\ t1 # t2
              /\ p.start_history_id # None
              /\ q.start_history_id # None
              /\ Truthy(p.last_processed_id)
              /\ p.last_processed_id = q.last_processed_id )
            => /\ p.start_history_id = q.start_history_id
               /\ IsPrefix(p.events, q.events) \/ IsPrefix(q.events, p.events)
                  \/ p.events = <<>> \/ q.events = <<>>

\* C11 witness: two passes read the same stored cursor, both delivered the
\* first message of the same range, both wrote, and the stored cursor is the
\* lower of the two incoming cursors.
C11_Witness ==
    \E t1, t2 \in Threads :
        LET p == pass[t1]
            q == pass[t2]
        IN  /\ t1 # t2
            /\ p.pc = "returned" /\ q.pc = "returned"
            /\ Truthy(p.last_processed_id)
            /\ p.last_processed_id = q.last_processed_id
            /\ p.start_history_id = q.start_history_id
            /\ p.results # <<>> /\ q.results # <<>>
            /\ p.events[1] = q.events[1]
            /\ p.results[1] \in Forwarded /\ q.results[1] \in Forwarded
            /\ p.saved = "ok" /\ q.saved = "ok"
            /\ Numeric(p.history_id) /\ Numeric(q.history_id)
            /\ int(p.history_id) > int(q.history_id)
            /\ state_file = Json(q.history_id)

\* C12, as claimed: a message skipped in a pass (its fetch or the consumer
\* failed) is handled once in that pass, and a duplicate notification with
\* the same cursor afterwards makes the pass list the range again.
C12_RetryByRedelivery ==
    \A t \in Threads :
        LET p == pass[t] IN
        /\ Len(p.results) <= Len(p.events)
        /\ ( /\ p.pc = "returned"
             /\ prev.skipped
             /\ prev.history_id = p.history_id
             /\ p.exception = "none" )
           => /\ p.outcome = "Completed"
              /\ p.start_history_id # None

\* The last push was a JSON object with a historyId.
HistoryRequest ==
    /\ request.envelope = "data"
    /\ request.data = "object"
    /\ "historyId" \in request.keys

\* The threads whose task was queued in this step.
NewlyQueued == {t \in Threads : pass[t].pc # "queued" /\ pass'[t].pc = "queued"}

\* C13: a pass is queued only in a step of /email-notify whose decoded
\* notification is a JSON object with a historyId (answered 200, one pass
\* for it); once the handlers are set, a push of that shape queues a pass,
\* and a push of any other shape (emailAddress alone, an unknown object,
\* other JSON, no JSON, a bad envelope) queues nothing.
C13_Dispatch ==
    [][ /\ NewlyQueued # {} =>
              /\ HistoryRequest'
              /\ gmail_handler'
              /\ response'.status = 200
              /\ Cardinality(NewlyQueued) = 1
              /\ accepted' = accepted + 1
        /\ (<<request, response>>' # <<request, response>> /\ gmail_handler')
              => (HistoryRequest' <=> NewlyQueued # {})
      ]_vars

\* C13 witness: a notification with emailAddress alone was answered as a
\* profile notification after an earlier history notification had run its
\* pass: nothing is queued or running.
C13_Witness ==
    /\ request = Shape(Notification("data", "object", {"emailAddress"}, None))
    /\ response = Answer(200, "profile")
    /\ InFlight = {}
    /\ accepted = 1
    /\ started = 1

\* The threads whose task is queued and not started.
Queued == {t \in Threads : pass[t].pc = "queued"}

\* C14: the step of /email-notify that accepts a history notification
\* answers 200, only queues the pass (nothing of it has run: the Gmail
\* service is not built, no cursor is read, no history listed) and starts no
\* task; a task starts in a later step, one task per accepted notification;
\* and every queued task is started.
C14_FireAndForget ==
    /\ [](accepted = started + Cardinality(Queued))
    /\ [][ accepted' # accepted =>
             /\ accepted' = accepted + 1
             /\ response'.status = 200
             /\ UNCHANGED <<service, state_file, started>>
             /\ \E t \in Threads :
                  /\ pass[t].pc = "idle"
                  /\ pass'[t] = [Idle EXCEPT !.pc = "queued",
                                             !.history_id = pass'[t].history_id]
                  /\ \A u \in Threads \ {t} : pass'[u] = pass[u]
       ]_vars
    /\ [][ started' # started =>
             /\ started' = started + 1
             /\ accepted' = accepted
             /\ \E t \in Queued : pass'[t].pc # "queued"
       ]_vars
    /\ \A t \in Threads : (pass[t].pc = "queued") ~> (pass[t].pc # "queued")

\* C14 witness: the notification is answered with 'processing: background'
\* and its pass is queued, not started.
C14_Witness ==
    /\ response = Answer(200, "watch_notification")
    /\ accepted = 1
    /\ started = 0
    /\ \E t \in Threads : pass[t] = [Idle EXCEPT !.pc = "queued",
                                                !.history_id = str(FirstHistoryId)]

\* The last push had an empty body, no message, no message data, or data
\* that is no base64 or no UTF-8.
InvalidRequest ==
    \/ request.envelope \in {"empty", "no_message", "no_data"}
    \/ request.data \in {"bad_base64", "bad_utf8"}

\* C19, as claimed: with the handlers set, an invalid push is answered with
\* status 400, and status 500 answers only an unexpected internal error
\* (here: a decoded JSON value that is no object).
C19_RequestValidation ==
    gmail_handler =>
        /\ InvalidRequest => response.status = 400
        /\ response.status = 500 => request.data = "scalar"

\* The methods of the requests the last endpoint call sent, in order.
Methods == [i \in 1..Len(watch_call.requests) |-> watch_call.requests[i].method]

\* C15: renew_watch sends its stop request first and its watch request
\* second; when the stop fails with failedPrecondition the watch request is
\* still sent, and the result is that of the watch request: success, with
\* the watch's historyId and expiration, exactly when the watch is set.
C15_StopBeforeWatch ==
    watch_call.op = "renew" =>
        /\ Methods \in {<<>>, <<"stop">>, <<"stop", "watch">>}
        /\ watch_call.stop_outcome = "failedPrecondition" =>
             /\ Methods = <<"stop", "watch">>
             /\ watch_call.result.error_reason # "failedPrecondition"
             /\ watch_call.result.status = "success"
                   <=> subscription.state = "Active"
             /\ watch_call.result.status = "success" =>
                   /\ watch_call.result.expiration = subscription.expiration
                   /\ watch_call.result.historyId = str(historyId)
                   /\ watch_call.http = 200

\* C15 witness: the stop failed with failedPrecondition and the renewal
\* succeeded.
C15_Witness ==
    /\ watch_call.op = "renew"
    /\ watch_call.stop_outcome = "failedPrecondition"
    /\ watch_call.result.status = "success"
    /\ subscription.state = "Active"

\* C16: the labelIds of every watch request are the configured label ids
\* when there are any, else the configured label names, and its
\* labelFilterAction is include.
C16_LabelSelection ==
    (watch_call.op = "renew" /\ Methods = <<"stop", "watch">>) =>
        LET body == watch_call.requests[2].body[1]
            ids == get_gmail_watch_label_ids(GMAIL_WATCH_LABEL_IDS)
            names == get_gmail_watch_labels(GMAIL_WATCH_LABELS)
        IN  /\ ids # <<>> => body.labelIds = ids
            /\ ids = <<>> => body.labelIds = names
            /\ body.labelFilterAction = "include"

\* C16 witness: label ids and label names are both configured and the watch
\* request carries the ids.
C16_Witness ==
    /\ watch_call.op = "renew"
    /\ Methods = <<"stop", "watch">>
    /\ GMAIL_WATCH_LABELS = <<"Work">>
    /\ get_gmail_watch_label_ids(GMAIL_WATCH_LABEL_IDS) = << <<"IMPORTANT">> >>
    /\ watch_call.requests[2].body[1].labelIds = << <<"IMPORTANT">> >>

\* C17, as claimed: a stop with no watch active returns a result (an error
\* result when the remote service answers with an error), raises nothing,
\* leaves no watch, and the caller of /stop-watch gets no failure.
C17_StopIdempotent ==
    ( /\ watch_call.op = "stop"
      /\ watch_call.before.state = "NoSubscription"
      /\ Methods = <<"stop">> )
    => /\ ~watch_call.raised
       /\ watch_call.stop_outcome # "ok" => watch_call.result.status = "error"
       /\ subscription.state = "NoSubscription"
       /\ watch_call.http = 200

\* C18: the watch changes only in a step of /renew-watch or /stop-watch; a
\* successful renewal, from no watch or from an active one, leaves the watch
\* active with the expiration it returns, counted from now; a successful stop
\* leaves no watch; /watch-status and the passing of time leave the watch as
\* it is.
C18_StateMachine ==
    [][ /\ subscription' # subscription =>
              /\ watch_call'.op \in {"renew", "stop"}
              /\ watch_call'.before = subscription
              /\ watch_call'.requests # <<>>
              /\ now' = now
        /\ ( /\ <<watch_call, subscription>>' # <<watch_call, subscription>>
             /\ watch_call'.result.status = "success" ) =>
              /\ watch_call'.op = "renew" =>
                    /\ subscription'.state = "Active"
                    /\ subscription'.expiration = watch_call'.result.expiration
                    /\ subscription'.expiration = now + WatchLifetime
              /\ watch_call'.op = "stop" => subscription' = NoSubscription
              /\ watch_call'.op = "status" => subscription' = subscription
        /\ now' # now => subscription' = subscription
      ]_vars

\* C18 witness: a renewal from an active watch whose expiration has passed
\* left an active watch with a later expiration.
C18_Witness ==
    /\ watch_call.op = "renew"
    /\ watch_call.before.state = "Active"
    /\ watch_call.before.expiration < now
    /\ watch_call.result.status = "success"
    /\ subscription.state = "Active"
    /\ subscription.expiration > watch_call.before.expiration

\* The messages of the first n entries of p's batch that were fetched and
\* pass the label filter, in the order of the batch.
RECURSIVE Eligible(_, _)
Eligible(p, n) ==
    IF n = 0 THEN <<>>
    ELSE IF Fetched(p, n) /\ PassesAllowList(p.events[n].message)
    THEN Append(Eligible(p, n - 1), p.events[n].message)
    ELSE Eligible(p, n - 1)

\* C20: in a pass the calls of the consumer are, in order and once each, the
\* messages of the entries handled so far that were fetched and pass the
\* label filter, whatever the sink answered for earlier ones.
C20_OncePerMessageInOrder ==
    \A t \in Threads :
        pass[t].calls = Eligible(pass[t], Len(pass[t].results))

\* C20 witness: the sink failed on the first message of a batch and the
\* consumer was called for the three messages of the batch in order.
C20_Witness ==
    \E t \in Threads :
        /\ pass[t].pc = "returned"
        /\ Len(pass[t].results) = 3
        /\ pass[t].results[1] = "forwarded_failed"
        /\ Len(pass[t].calls) = 3
        /\ pass[t].calls = [i \in 1..3 |-> pass[t].events[i].message]

\* One of the two cursors of the freshness check of p does not convert.
Malformed(p) ==
    \/ ValueError(p.history_id)
    \/ Truthy(p.last_processed_id) /\ ValueError(p.last_processed_id)

\* The pass got past get_service: its freshness check ran.
Compared(p) == p.pc \notin {"idle", "queued"} /\ p.exception # "Exception"

\* C21: when the incoming or the stored cursor does not convert to an
\* integer, the pass is not skipped: the start of the range is fixed as for
\* any cursor (the stored cursor if there is one, else the incoming one), the
\* history.list request follows, and a batch it answers is fanned out and
\* the incoming cursor saved as in any pass.
C21_MalformedCursor ==
    \A t \in Threads :
        LET p == pass[t] IN
        (Compared(p) /\ Malformed(p))
        => /\ p.outcome # "Skipped"
           /\ p.start_history_id =
                 (IF Truthy(p.last_processed_id) THEN p.last_processed_id
                  ELSE p.history_id)
           /\ p.pc = "returned" =>
                 \/ p.exception = "HttpError"
                 \/ p.exception = "KeyError" /\ p.events # <<>>
                 \/ RanToSave(p)

\* C21 witness: the stored cursor is no number (an earlier pass with a
\* malformed incoming cursor was not skipped and saved it); the pass of a
\* numeric cursor was not skipped and sent history.list from the stored one.
C21_Witness ==
    \E t \in Threads :
        /\ pass[t].pc = "returned"
        /\ Numeric(pass[t].history_id)
        /\ pass[t].last_processed_id = <<"x">>
        /\ pass[t].start_history_id = <<"x">>
        /\ pass[t].outcome = "Failed"
        /\ pass[t].exception = "HttpError"

\* C22: the startHistoryId of every history.list request is the stored
\* cursor the pass read when it read one, else the incoming cursor, and the
\* request names messageAdded as its only history type.
C22_RangeStart ==
    \A t \in Threads :
        LET p == pass[t] IN
        /\ p.pc \in Running \ {"history_list"} => p.history_request # <<>>
        /\ p.history_request # <<>> =>
             LET sent == p.history_request[1] IN
             /\ Truthy(p.last_processed_id)
                    => sent.startHistoryId = p.last_processed_id
             /\ ~Truthy(p.last_processed_id)
                    => sent.startHistoryId = p.history_id
             /\ sent.historyTypes = <<"messageAdded">>

\* C22 witness: stored 8, incoming 10: the list request starts at 8 and its
\* answer holds the records 9 and 10.
C22_Witness ==
    \E t \in Threads :
        /\ pass[t].pc = "fan_out"
        /\ pass[t].last_processed_id = str(FirstHistoryId)
        /\ pass[t].history_id = str(FirstHistoryId + 2)
        /\ pass[t].history_request # <<>>
        /\ pass[t].history_request[1].startHistoryId = str(FirstHistoryId)
        /\ Len(pass[t].events) = 3

\* The parts of a tree in pre-order: a part before its subparts, the
\* subparts in the order of the list.
RECURSIVE PreOrder(_)
PreOrder(part) ==
    <<part>> \o Flatten([i \in 1..Len(part.parts) |-> PreOrder(part.parts[i])])

\* The parts of the message with the type asked for and non-empty data.
Contributors(m, html_part) ==
    SelectSeq(PreOrder(m.payload),
              LAMBDA n : /\ n.mimeType = (IF html_part THEN "text/html"
                                          ELSE "text/plain")
                         /\ n.body.data # <<>>)

\* The decoded data of a part (nothing when the data does not decode).
DecodedData(n) ==
    IF DecodeRaises(n.body.data) THEN <<>> ELSE b64decode(n.body.data)

\* C23, as claimed: extract_message_body returns the concatenation, in
\* pre-order, of the decoded data of the parts with the type asked for and
\* non-empty data.
C23_Original ==
    (decoded.op = "extract_message_body" /\ ~decoded.strip_html) =>
        LET from == Contributors(message, decoded.html_part)
        IN  decoded.text = Flatten([i \in 1..Len(from) |-> DecodedData(from[i])])

\* C23, amended: extract_message_body returns, with the whitespace at both
\* ends removed, the concatenation in pre-order of the texts of the parts
\* with the type asked for and non-empty data that decodes: the decoded data
\* of the part, cleaned of HTML when strip_html is set. Parts of another
\* type add nothing, and a tree with no such part gives the empty string.
C23_PreOrderText ==
    decoded.op = "extract_message_body" =>
        LET from == Contributors(message, decoded.html_part)
            text(n) == IF decoded.strip_html /\ decoded.html_part
                       THEN extract_clean_text_from_html(DecodedData(n))
                       ELSE DecodedData(n)
        IN  /\ decoded.text = strip(Flatten([i \in 1..Len(from) |-> text(from[i])]))
            /\ from = <<>> => decoded.text = <<>>

\* C23 witness: a text/plain part with data "A" and two subparts, an HTML
\* part and a plain part " H\n": the plain text is "A H".
C23_Witness ==
    /\ decoded.op = "extract_message_body"
    /\ ~decoded.html_part
    /\ message.payload.body.data = <<"A">>
    /\ Len(message.payload.parts) = 2
    /\ message.payload.parts[1].mimeType = "text/html"
    /\ message.payload.parts[2].body.data = <<" ", "H", "\n">>
    /\ decoded.text = <<"A", " ", "H">>

\* The visible text of the message's text/html parts, and the text of its
\* text/plain parts, as extract_message_body gives them: in pre-order, the
\* whitespace at both ends removed.
HtmlStripped(m) ==
    LET from == Contributors(m, TRUE)
    IN  strip(Flatten([i \in 1..Len(from) |->
                          extract_clean_text_from_html(DecodedData(from[i]))]))

PlainText(m) ==
    LET from == Contributors(m, FALSE)
    IN  strip(Flatten([i \in 1..Len(from) |-> DecodedData(from[i])]))

\* The message has a part of the given type.
HasPart(m, mimeType) ==
    \E i \in 1..Len(PreOrder(m.payload)) : PreOrder(m.payload)[i].mimeType = mimeType

\* C24: the body process_email works with is the visible text of the
\* message's text/html parts when that is not empty, else the text of its
\* text/plain parts; for a message with no text/html part it is the plain
\* text, and it is not empty when the plain text is not.
C24_BodyPreference ==
    decoded.op = "process_email" =>
        /\ HtmlStripped(message) # <<>> => decoded.text = HtmlStripped(message)
        /\ HtmlStripped(message) = <<>> => decoded.text = PlainText(message)
        /\ ~HasPart(message, "text/html") =>
             /\ decoded.text = PlainText(message)
             /\ PlainText(message) # <<>> => decoded.text # <<>>

\* C24 witness: the HTML part of the message has no visible text and the
\* plain part reads "Hi": the body is "Hi".
C24_Witness ==
    /\ decoded.op = "process_email"
    /\ message.payload.mimeType = "multipart/mixed"
    /\ Len(message.payload.parts) = 2
    /\ message.payload.parts[1].body.data = <<"<p>", " ", "</p>", "<script>">>
    /\ message.payload.parts[2].body.data = <<"H", "i">>
    /\ decoded.text = <<"H", "i">>

\* The parts of the message with a filename and an attachment id.
Attached(m) ==
    SelectSeq(PreOrder(m.payload),
              LAMBDA n : n.filename # "" /\ n.body.attachmentId # "")

\* C25: extract_attachments returns one entry for each part with a
\* non-empty filename and a non-empty attachment id, in pre-order, with the
\* part's filename, type, attachment id and size, and no other entry; parts
\* with the same attachment id give one entry each.
C25_Attachments ==
    decoded.op = "extract_attachments" =>
        LET from == Attached(message)
        IN  decoded.attachments =
                [i \in 1..Len(from) |->
                    [filename |-> from[i].filename,
                     mimeType |-> from[i].mimeType,
                     attachmentId |-> from[i].body.attachmentId,
                     size |-> from[i].body.size]]

\* C25 witness: two parts of a message have the same attachment id, one of
\* them in a nested container and after a part with a filename and no
\* attachment id: two entries, in the order of the tree.
C25_Witness ==
    /\ decoded.op = "extract_attachments"
    /\ Len(message.payload.parts) = 2
    /\ message.payload.parts[1].filename = "n.txt"
    /\ Len(message.payload.parts[2].parts) = 2
    /\ message.payload.parts[2].parts[1].filename = "i.png"
    /\ message.payload.parts[2].parts[2].filename = "f.pdf"
    /\ Len(decoded.attachments) = 2
    /\ decoded.attachments[1].filename = "n.txt"
    /\ decoded.attachments[2].filename = "f.pdf"
    /\ decoded.attachments[1].attachmentId = decoded.attachments[2].attachmentId

\* C26, as claimed: when passes run one after another with increasing
\* numeric cursors (the earlier one having stored its cursor), no message is
\* given to the consumer by both.
C26_AtMostOnce ==
    \A t \in Threads :
        LET p == pass[t] IN
        ( /\ p.pc # "idle"
          /\ Numeric(p.history_id)
          /\ Numeric(prev.history_id)
          /\ int(prev.history_id) < int(p.history_id)
          /\ prev.saved = "ok" )
        => \A i \in 1..Len(p.calls), j \in 1..Len(prev.calls) :
               p.calls[i] # prev.calls[j]

\* C28: an entry without a message id is never handled: it raises out of
\* the loop, the pass returns with the rest of the batch unhandled, nothing
\* saved and the state file as it was, and the messages handled before it
\* have reached the consumer. A later pass that lists the same range again
\* finds those messages in its batch and gives each one it fetches to the
\* consumer again.
C28_MidBatchAbort ==
    \A t \in Threads :
        LET p == pass[t] IN
        /\ \A i \in 1..Len(p.results) : p.results[i] # "KeyError"
        /\ p.exception = "KeyError" =>
             /\ p.pc = "returned"
             /\ Len(p.results) < Len(p.events)
             /\ NextEntry(p).message = NoId
             /\ p.saved = "no"
             /\ state_file = before
             /\ p.calls = Eligible(p, Len(p.results))
        /\ ( /\ prev.exception = "KeyError"
             /\ p.events # <<>>
             /\ p.start_history_id = prev.start_history_id )
           => \A j \in 1..Len(prev.calls) :
                \E i \in 1..Len(p.events) :
                    /\ p.events[i].message = prev.calls[j]
                    /\ (i <= Len(p.results) /\ Fetched(p, i))
                           => p.results[i] \in Forwarded

\* C28 witness: a pass forwarded messages and was ended by the entry
\* without a message id; the next pass listed the same range, forwarded the
\* same messages and ended the same way, the state file untouched.
C28_Witness ==
    \E t \in Threads :
        /\ prev.exception = "KeyError"
        /\ prev.calls # <<>>
        /\ pass[t].pc = "returned"
        /\ pass[t].exception = "KeyError"
        /\ pass[t].start_history_id = prev.start_history_id
        /\ pass[t].calls = prev.calls
        /\ pass[t].saved = "no"
        /\ state_file = before

\* The save of the cursor failed: reading the present state, opening the
\* file for writing, or writing it.
SaveFailed(how) == how \in {"error_read", "error_open", "error_dump"}

\* C30, as claimed: when the save of the cursor fails, nothing is raised,
\* the pass returns as completed with its whole batch handled, and the
\* stored cursor is the one the pass found; the next pass, with the same or
\* a higher cursor, is not skipped and lists the same range again.
C30_WriteFailure ==
    \A t \in Threads :
        LET p == pass[t] IN
        /\ p.pc # "raised"
        /\ (p.pc = "returned" /\ SaveFailed(p.saved)) =>
             /\ p.outcome = "Completed"
             /\ Len(p.results) = Len(p.events)
             /\ Stored(state_file) = Stored(before)
        /\ ( /\ Compared(p)
             /\ SaveFailed(prev.saved)
             /\ Numeric(p.history_id)
             /\ Numeric(prev.history_id)
             /\ int(p.history_id) >= int(prev.history_id) )
           => /\ p.outcome # "Skipped"
              /\ p.start_history_id = prev.start_history_id

\* C27, as claimed: when renew_watch starts with an active watch, its stop
\* request succeeds and its watch request fails, it returns a result with
\* status error and the mailbox is left with no watch.
C27_RenewNotAtomic ==
    ( /\ watch_call.op = "renew"
      /\ watch_call.before.state = "Active"
      /\ watch_call.stop_outcome = "ok"
      /\ Methods = <<"stop", "watch">>
      /\ watch_call.result.status # "success" )
    => /\ subscription = NoSubscription
       /\ ~watch_call.raised
       /\ watch_call.result.status = "error"

\* The threads inside get_service_account_info.
Initialising ==
    {t \in Threads : caller[t].pc \in {"check", "load", "gmail_handler", "watch_manager"}}

\* C29, as claimed: whenever no call of get_service_account_info is under
\* way, gmail_handler is set exactly when watch_manager is; and an endpoint
\* that got past get_service_account_info finds watch_manager set.
C29_HandlersTogether ==
    /\ Initialising = {} => (gmail_handler <=> watch_manager)
    /\ \A t \in Threads : caller[t].raised # "AttributeError"

====
